---- MODULE Spec2Model ----
(***************************************************************************)
(* A model of wan_scrapes/main.py: the orchestrator loop of main(), the    *)
(* fetcher fetch_website_content() on top of a requests session mounted    *)
(* with urllib3's Retry(total=5, ...), the extractor smart_scrape() with   *)
(* its helpers, and the part of send_discord_embed() that decides the      *)
(* colour of a report and posts it.                                        *)
(*                                                                         *)
(* Text is a sequence of one-character strings; a sentinel such as         *)
(* "Title not found" is kept as a one-element sequence holding the whole   *)
(* sentinel, so that every text value has one shape.  A URL or href is the *)
(* record of its parts (scheme, netloc, path, fragment), which is what     *)
(* urlparse() computes from the string.                                    *)
(***************************************************************************)
EXTENDS Integers, Sequences, FiniteSets, TLC

\* ------------------------------------------------------------------ bounds
\* Longest batch of URLs given to main().
MaxUrls == 2
\* Most elements of one kind (anchors, headings, images, ...) on a generated page.
MaxElems == 2
\* Longest text of a generated title element.
MaxStrLen == 2

\* ------------------------------------------------------- program constants
\* Retry(total=5): the number of RETRIES urllib3 allows after the first attempt.
RetryTotal == 5
\* The status reported when the exception carries no response: 'N/A'.
NA == 0
\* h1_tags[:5], h2_tags[:5], paragraphs[:5], links[:5], max_images=5.
SampleCap == 5
\* len(p.get_text(strip=True)) > 50
ParaMinLen == 50
\* color = 0x2ecc71 if status_code == 200 else 0xe74c3c
Green == 3066993
Red == 15158332
OkStatus == 200

\* status_forcelist=[429, 500, 502, 503, 504]
status_forcelist == {429, 500, 502, 503, 504}
\* urllib3.util.retry.Retry.RETRY_AFTER_STATUS_CODES, honoured because
\* respect_retry_after_header defaults to True.
RETRY_AFTER_STATUS_CODES == {413, 429, 503}

\* --------------------------------------------------------------------- text
Absent == <<"<absent>">>

Txt(s) == <<s>>

RECURSIVE lstrip(_)
lstrip(t) == IF t # <<>> /\ Head(t) = " " THEN lstrip(Tail(t)) ELSE t

RECURSIVE rstrip(_)
rstrip(t) ==
    IF t # <<>> /\ t[Len(t)] = " " THEN rstrip(SubSeq(t, 1, Len(t) - 1)) ELSE t

\* str.strip()
strip(t) == rstrip(lstrip(t))

\* n copies of the character "a"
Rep(n) == [i \in 1..n |-> "a"]

\* Python's truthiness of a str / list
Truthy(t) == t # <<>>

\* lst[:n]
Take(s, n) == SubSeq(s, 1, IF Len(s) < n THEN Len(s) ELSE n)

\* x or default, for lists
OrDefault(s, d) == IF s # <<>> THEN s ELSE d

\* [x.strip() for x in s]
StripAll(s) == [i \in 1..Len(s) |-> strip(s[i])]

\* ---------------------------------------------------------------------- URLs
\* str.lower() on the scheme and host names the model uses
Lower(s) ==
    CASE s = "A.COM" -> "a.com"
      [] s = "JavaScript" -> "javascript"
      [] s = "HTTP" -> "http"
      [] OTHER -> s

Url(scheme, netloc, path, frag) ==
    [scheme |-> scheme, netloc |-> netloc, path |-> path, frag |-> frag]

\* A plain string that is no URL, such as the sentinel "Not found": urlparse
\* reads it as a path.
StrUrl(s) == Url("", "", s, "")

EmptyHref == Url("", "", "", "")

\* urlsplit(): "Invalid IPv6 URL" is raised for a netloc with an unmatched bracket.
urlparse_raises(u) == u.netloc = "[::1"

\* urlparse(url).scheme: urlsplit lower-cases the scheme.
parsed_scheme(u) == Lower(u.scheme)

\* is_valid_url without its test of the scheme
is_valid_url_any_scheme(u) == u.netloc # ""

is_valid_url(u) == parsed_scheme(u) \in {"http", "https"} /\ u.netloc # ""

\* schemes urljoin resolves relative to the base (urllib.parse.uses_relative)
uses_relative == {"", "http", "https"}

\* urljoin(base, href), for the hrefs of the model (no query, paths absolute)
urljoin(base, h) ==
    IF h = EmptyHref THEN base
    ELSE IF h.scheme # "" /\ (Lower(h.scheme) # Lower(base.scheme)
                              \/ Lower(h.scheme) \notin uses_relative) THEN h
    ELSE IF h.netloc # "" THEN Url(base.scheme, h.netloc, h.path, h.frag)
    ELSE Url(base.scheme, base.netloc,
             IF h.path # "" THEN h.path ELSE base.path, h.frag)

urljoin_raises(base, h) == urlparse_raises(base) \/ urlparse_raises(h)

\* ------------------------------------------------------------ parsed pages
(***************************************************************************)
(* html is modelled by what BeautifulSoup(html, 'html.parser') finds in    *)
(* it: a record of the elements the extractor asks for, in document order. *)
(*   nonempty : the html string is not ""                                  *)
(*   title    : [present, hasString, string]  (soup.title, .string)        *)
(*   metas    : <<[property, name, content, charset, http_equiv]>>         *)
(*   h1,h2,p  : the elements' texts before stripping                       *)
(*   html_tag : [present, lang]                                            *)
(*   scripts  : the ld+json blocks, [valid, value]                         *)
(*   links    : <<[rel, has_href, href]>>                                  *)
(*   imgs     : <<[has_src, src]>>                                         *)
(*   anchors  : <<[has_href, ws, href]>>, ws: the href is padded by spaces *)
(* An attribute a tag does not carry is Absent.                            *)
(***************************************************************************)
Meta(property, name, content, charset, http_equiv) ==
    [property |-> property, name |-> name, content |-> content,
     charset |-> charset, http_equiv |-> http_equiv]

\* tag.get(attr, default)
AttrGet(v, default) == IF v = Absent THEN default ELSE v

\* soup.find(...): the first of the elements found, or none
First(found) == Take(found, 1)

\* title = soup.title.string.strip() if soup.title and soup.title.string
\*         else "Title not found"
scrape_title(page) ==
    IF page.title.present /\ page.title.hasString /\ Truthy(page.title.string)
    THEN strip(page.title.string)
    ELSE Txt("Title not found")

\* meta_desc_tag.get("content", "").strip() if meta_desc_tag else <sentinel>
scrape_meta(page, name, sentinel) ==
    LET IsIt(m) == m.name = Txt(name)
        tag == First(SelectSeq(page.metas, IsIt))
    IN IF tag # <<>> THEN strip(AttrGet(tag[1].content, <<>>)) ELSE Txt(sentinel)

\* [h.get_text(strip=True) for h in soup.find_all(tag) if h.get_text(strip=True)]
heading_texts(elems) ==
    LET NonEmpty(t) == Truthy(strip(t))
    IN StripAll(SelectSeq(elems, NonEmpty))

\* paragraphs: stripped text, non-empty and longer than 50 characters
paragraph_texts(elems) ==
    LET Keep(t) == Truthy(strip(t)) /\ Len(strip(t)) > ParaMinLen
    IN StripAll(SelectSeq(elems, Keep))

\* "charset=" in content, and content.split("charset=")[-1]: the content of a
\* Content-Type meta is <<media type>> or <<media type, "charset=", name>>
has_charset_suffix(content) == \E i \in 1..Len(content) : content[i] = "charset="

RECURSIVE after_last_charset(_)
after_last_charset(content) ==
    IF has_charset_suffix(Tail(content)) THEN after_last_charset(Tail(content))
    ELSE Tail(content)

scrape_charset(page) ==
    LET HasCharset(m) == m.charset # Absent
        IsCT(m) == m.http_equiv = Txt("Content-Type")
        charset_tag == First(SelectSeq(page.metas, HasCharset))
        content_type == First(SelectSeq(page.metas, IsCT))
        charset ==
            IF charset_tag # <<>> THEN charset_tag[1].charset
            ELSE IF content_type # <<>>
                    /\ has_charset_suffix(AttrGet(content_type[1].content, <<>>))
                 THEN after_last_charset(content_type[1].content)
                 ELSE <<>>
    IN IF Truthy(charset) THEN charset ELSE Txt("Unknown")

\* lang = soup.html.attrs.get("lang") if soup.html else None;  lang or "Unknown"
scrape_lang(page) ==
    IF page.html_tag.present /\ page.html_tag.lang # Absent /\ Truthy(page.html_tag.lang)
    THEN page.html_tag.lang
    ELSE Txt("Unknown")

\* extract_json_ld: a block json.loads() rejects is skipped
extract_json_ld(page) ==
    LET Valid(b) == b.valid
        parsed == SelectSeq(page.scripts, Valid)
        data == [i \in 1..Len(parsed) |-> parsed[i].value]
    IN OrDefault(data, <<Txt("Not found")>>)

\* prop = tag.get("property") or tag.get("name") or ""
meta_prop(m) ==
    IF m.property # Absent /\ Truthy(m.property) THEN m.property
    ELSE IF m.name # Absent /\ Truthy(m.name) THEN m.name
    ELSE <<>>

\* prop.startswith("og:") or prop.startswith("twitter:")
is_social(prop) == prop # <<>> /\ Head(prop) \in {"og:", "twitter:"}

\* The keys a social-tag mapping of the model can hold.
DictKeys == {<<"og:", "title">>, <<"twitter:", "card">>, Txt("None"), Txt("N/A")}

EmptyDict == [k \in DictKeys |-> Absent]

DictLen(d) == Cardinality({k \in DictKeys : d[k] # Absent})

RECURSIVE og_fill(_, _)
\* og[prop] = tag.get("content", "Not found"), a later tag overwriting an earlier
og_fill(metas, og) ==
    IF metas = <<>> THEN og
    ELSE LET m == Head(metas)
         IN og_fill(Tail(metas),
                    IF is_social(meta_prop(m))
                    THEN [og EXCEPT ![meta_prop(m)] = AttrGet(m.content, Txt("Not found"))]
                    ELSE og)

extract_open_graph(page) ==
    LET og == og_fill(page.metas, EmptyDict)
    IN IF DictLen(og) > 0 THEN og
       ELSE [EmptyDict EXCEPT ![Txt("None")] = Txt("Not found")]

\* [urljoin(base_url, h) for h in hrefs]
JoinAll(base_url, hrefs) == [i \in 1..Len(hrefs) |-> urljoin(base_url, hrefs[i])]

\* rel=lambda x: x and "icon" in x.lower()
rel_is_icon(rel) == rel \in {"icon", "ICON", "shortcut icon", "apple-touch-icon"}

\* href is truthy
HasUrl(has, u) == has /\ u # EmptyHref

find_favicons_hrefs(page) ==
    LET Keep(l) == rel_is_icon(l.rel) /\ HasUrl(l.has_href, l.href)
        kept == SelectSeq(page.links, Keep)
    IN [i \in 1..Len(kept) |-> kept[i].href]

find_favicons(page, base_url) ==
    OrDefault(JoinAll(base_url, find_favicons_hrefs(page)), <<StrUrl("Not found")>>)

RECURSIVE main_images_loop(_, _, _)
\* for img in soup.find_all("img", src=True): append when src is truthy, and
\* break once max_images are collected
main_images_loop(imgs, images, max_images) ==
    IF imgs = <<>> THEN images
    ELSE LET img == Head(imgs)
             images2 == IF HasUrl(TRUE, img.src) THEN Append(images, img.src) ELSE images
         IN IF Len(images2) >= max_images THEN images2
            ELSE main_images_loop(Tail(imgs), images2, max_images)

main_images_srcs(page) ==
    LET HasSrc(i) == i.has_src
    IN main_images_loop(SelectSeq(page.imgs, HasSrc), <<>>, SampleCap)

get_main_images(page, base_url) ==
    OrDefault(JoinAll(base_url, main_images_srcs(page)), <<StrUrl("Not found")>>)

canonical_link(page) ==
    LET IsCanon(l) == l.rel = "canonical"
    IN First(SelectSeq(page.links, IsCanon))

get_canonical_url(page, base_url) ==
    LET link == canonical_link(page)
    IN IF link # <<>> /\ HasUrl(link[1].has_href, link[1].href)
       THEN urljoin(base_url, link[1].href)
       ELSE StrUrl("Not found")

get_robots_meta(page) ==
    LET IsRobots(m) == m.name = Txt("robots")
        tag == First(SelectSeq(page.metas, IsRobots))
    IN IF tag # <<>> /\ tag[1].content # Absent /\ Truthy(tag[1].content)
       THEN strip(tag[1].content)
       ELSE Txt("Not found")

\* ---------------------------------------------------------------- links
\* href = a.get("href").strip(): the padding is dropped
stripped_href(a) == a.href

\* href.startswith("#")
is_fragment_only(h) == h.scheme = "" /\ h.netloc = "" /\ h.path = "" /\ h.frag # ""

\* href.lower().startswith("javascript:")
is_javascript(h) == Lower(h.scheme) = "javascript"

\* the anchors count_links does not skip: soup.find_all("a", href=True) keeps
\* every anchor that carries the attribute, whatever its value
counted_anchors(page) ==
    LET Counted(a) ==
            /\ a.has_href
            /\ ~is_fragment_only(stripped_href(a))
            /\ ~is_javascript(stripped_href(a))
    IN SelectSeq(page.anchors, Counted)

count_links_raises(page, base_url) ==
    \E i \in 1..Len(counted_anchors(page)) :
        urljoin_raises(base_url, stripped_href(counted_anchors(page)[i]))

\* domain == base_domain, both lower-cased
same_domain(full_url, base_url) == Lower(full_url.netloc) = Lower(base_url.netloc)

\* count_links: the two sets, before list() orders them
count_links(page, base_url) ==
    LET as == counted_anchors(page)
        full == {urljoin(base_url, stripped_href(as[i])) : i \in 1..Len(as)}
    IN [internal |-> {u \in full : same_domain(u, base_url)},
        external |-> {u \in full : ~same_domain(u, base_url)}]

\* list(a_set): the elements of the set in some order
Orderings(S) ==
    {q \in [1..Cardinality(S) -> S] : \A i, j \in 1..Cardinality(S) : q[i] = q[j] => i = j}

\* ------------------------------------------------------------- the record
HeaderNames == {"Last-Modified", "Content-Length", "Server"}

\* response_headers.get(name, default)
HeaderGet(headers, name, default) == AttrGet(headers[name], Txt(default))

\* {}: no header at all
NoHeaders == [n \in HeaderNames |-> Absent]

smart_scrape_raises(page, base_url) ==
    \/ \E i \in 1..Len(find_favicons_hrefs(page)) :
           urljoin_raises(base_url, find_favicons_hrefs(page)[i])
    \/ \E i \in 1..Len(main_images_srcs(page)) :
           urljoin_raises(base_url, main_images_srcs(page)[i])
    \/ LET link == canonical_link(page)
       IN link # <<>> /\ HasUrl(link[1].has_href, link[1].href)
          /\ urljoin_raises(base_url, link[1].href)
    \/ count_links_raises(page, base_url)

\* smart_scrape(html, base_url, response_headers, load_time); internal_links and
\* external_links are the lists list(internal), list(external) of count_links
smart_scrape(page, base_url, response_headers, load_time, internal_links, external_links) ==
    [title |-> scrape_title(page),
     meta_description |-> scrape_meta(page, "description", "Meta description not found"),
     meta_keywords |-> scrape_meta(page, "keywords", "Meta keywords not found"),
     headlines |-> OrDefault(Take(heading_texts(page.h1), SampleCap),
                             <<Txt("No H1 tags found")>>),
     subheadlines |-> OrDefault(Take(heading_texts(page.h2), SampleCap),
                                <<Txt("No H2 tags found")>>),
     summaries |-> OrDefault(Take(paragraph_texts(page.p), SampleCap),
                             <<Txt("No meaningful paragraphs found")>>),
     charset |-> scrape_charset(page),
     lang |-> scrape_lang(page),
     json_ld |-> extract_json_ld(page),
     open_graph |-> extract_open_graph(page),
     favicons |-> find_favicons(page, base_url),
     main_images |-> get_main_images(page, base_url),
     canonical_url |-> get_canonical_url(page, base_url),
     robots_meta |-> get_robots_meta(page),
     internal_links_count |-> Len(internal_links),
     external_links_count |-> Len(external_links),
     internal_links_sample |-> OrDefault(Take(internal_links, SampleCap), <<StrUrl("None")>>),
     external_links_sample |-> OrDefault(Take(external_links, SampleCap), <<StrUrl("None")>>),
     last_modified |-> HeaderGet(response_headers, "Last-Modified", "Not found"),
     content_length |-> HeaderGet(response_headers, "Content-Length", "Unknown"),
     server |-> HeaderGet(response_headers, "Server", "Unknown"),
     load_time |-> load_time]

\* the record main() builds itself when html is falsy
SyntheticRecord ==
    [title |-> Txt("N/A"),
     meta_description |-> Txt("N/A"),
     meta_keywords |-> Txt("N/A"),
     headlines |-> <<Txt("Failed to retrieve content.")>>,
     subheadlines |-> <<Txt("Failed to retrieve content.")>>,
     summaries |-> <<Txt("Failed to retrieve content.")>>,
     charset |-> Txt("N/A"),
     lang |-> Txt("N/A"),
     json_ld |-> <<Txt("N/A")>>,
     open_graph |-> [EmptyDict EXCEPT ![Txt("N/A")] = Txt("N/A")],
     favicons |-> <<StrUrl("N/A")>>,
     main_images |-> <<StrUrl("N/A")>>,
     canonical_url |-> StrUrl("N/A"),
     robots_meta |-> Txt("N/A"),
     internal_links_count |-> 0,
     external_links_count |-> 0,
     internal_links_sample |-> <<>>,
     external_links_sample |-> <<>>,
     last_modified |-> Txt("N/A"),
     content_length |-> Txt("N/A"),
     server |-> Txt("N/A"),
     load_time |-> 0]

\* the value of a variable that holds nothing yet
None == [none |-> TRUE]

\* ------------------------------------------------------------------ inputs
SeqsUpTo(S, n) == UNION {[1..k -> S] : k \in 0..n}

\* the non-empty strings of at most n characters over a blank and a letter
Strings(n) == UNION {[1..k -> {" ", "a"}] : k \in 1..n}

\* the html string "": nothing to find in it
EmptyPage ==
    [nonempty |-> FALSE,
     title |-> [present |-> FALSE, hasString |-> FALSE, string |-> <<>>],
     metas |-> <<>>, h1 |-> <<>>, h2 |-> <<>>, p |-> <<>>,
     html_tag |-> [present |-> FALSE, lang |-> Absent],
     scripts |-> <<>>, links |-> <<>>, imgs |-> <<>>, anchors |-> <<>>]

\* a page of text with none of the elements the extractor looks for
BarePage == [EmptyPage EXCEPT !.nonempty = TRUE]

\* the parser keeps a text of blanks only as one blank
ParsedStrings(n) == {t \in Strings(n) : Len(t) > 1 => \E i \in 1..Len(t) : t[i] # " "}

\* <title> absent, <title></title>, or <title>s</title>
Titles ==
    {[present |-> FALSE, hasString |-> FALSE, string |-> <<>>],
     [present |-> TRUE, hasString |-> FALSE, string |-> <<>>]}
    \cup {[present |-> TRUE, hasString |-> TRUE, string |-> t] : t \in ParsedStrings(MaxStrLen)}

HeadingTexts == {<<" ">>, <<"a">>, <<" ", "a", " ">>}

ParagraphTexts ==
    {<<" ">>, Rep(ParaMinLen), Rep(ParaMinLen + 1), <<" ">> \o Rep(ParaMinLen) \o <<" ">>}

Metas ==
    {Meta(Absent, Txt("description"), <<" ", "a", " ">>, Absent, Absent),
     Meta(Absent, Txt("description"), Absent, Absent, Absent),
     Meta(Absent, Txt("keywords"), <<"a">>, Absent, Absent),
     Meta(Absent, Txt("robots"), <<"a", " ">>, Absent, Absent),
     Meta(Absent, Absent, Absent, <<"utf-8">>, Absent),
     Meta(Absent, Absent, <<"text/html", "charset=", "latin-1">>, Absent, Txt("Content-Type")),
     Meta(<<"og:", "title">>, Absent, <<"a">>, Absent, Absent),
     Meta(Absent, <<"twitter:", "card">>, Absent, Absent, Absent)}

HtmlTags ==
    {[present |-> FALSE, lang |-> Absent], [present |-> TRUE, lang |-> Absent],
     [present |-> TRUE, lang |-> <<>>], [present |-> TRUE, lang |-> <<"en">>]}

Scripts == {[valid |-> TRUE, value |-> Txt("j1")], [valid |-> TRUE, value |-> Txt("j2")],
            [valid |-> FALSE, value |-> Absent]}

\* the URL a page is fetched from
BaseUrl == Url("http", "a.com", "/x", "")

\* hrefs: empty, fragment-only, javascript pseudo-links in two spellings, relative,
\* same host in another case, another host, a scheme with no host, and a host
\* urlparse rejects
Hrefs ==
    {EmptyHref,
     Url("", "", "", "f"),
     Url("javascript", "", "void(0)", ""),
     Url("JavaScript", "", "void(0)", ""),
     Url("", "", "/y", ""),
     Url("", "", "/x", ""),
     Url("https", "A.COM", "/z", ""),
     Url("http", "b.com", "/w", ""),
     Url("mailto", "", "x@b.com", ""),
     Url("http", "[::1", "", "")}

Anchors ==
    {[has_href |-> FALSE, ws |-> FALSE, href |-> EmptyHref]}
    \cup {[has_href |-> TRUE, ws |-> FALSE, href |-> h] : h \in Hrefs}
    \cup {[has_href |-> TRUE, ws |-> TRUE, href |-> h] :
             h \in {EmptyHref, Url("", "", "", "f"), Url("", "", "/y", "")}}

ResourceHrefs == {EmptyHref, Url("", "", "/y", ""), Url("http", "b.com", "/w", ""),
                  Url("http", "[::1", "", "")}

Links ==
    {[rel |-> r, has_href |-> TRUE, href |-> h] :
        r \in {"icon", "shortcut icon", "canonical", "stylesheet"}, h \in ResourceHrefs}
    \cup {[rel |-> r, has_href |-> FALSE, href |-> EmptyHref] : r \in {"ICON", "canonical"}}

Imgs ==
    {[has_src |-> TRUE, src |-> h] : h \in ResourceHrefs}
    \cup {[has_src |-> FALSE, src |-> EmptyHref]}

\* SampleCap + 1 copies of x: one more than any list of the record keeps
Many(x) == [i \in 1..(SampleCap + 1) |-> x]

\* pages that differ from BarePage in one kind of element
ScrapePages ==
    {EmptyPage}
    \cup {[BarePage EXCEPT !.title = t] : t \in Titles}
    \cup {[BarePage EXCEPT !.h1 = q] : q \in SeqsUpTo(HeadingTexts, MaxElems) \cup {Many(<<"a">>)}}
    \cup {[BarePage EXCEPT !.h2 = q] : q \in SeqsUpTo(HeadingTexts, MaxElems) \cup {Many(<<"a">>)}}
    \cup {[BarePage EXCEPT !.p = q] :
             q \in SeqsUpTo(ParagraphTexts, MaxElems) \cup {Many(Rep(ParaMinLen + 1))}}
    \cup {[BarePage EXCEPT !.metas = q] : q \in SeqsUpTo(Metas, MaxElems)}
    \cup {[BarePage EXCEPT !.html_tag = t] : t \in HtmlTags}
    \cup {[BarePage EXCEPT !.scripts = q] : q \in SeqsUpTo(Scripts, MaxElems)}
    \cup {[BarePage EXCEPT !.links = q] : q \in SeqsUpTo(Links, MaxElems)}
    \cup {[BarePage EXCEPT !.imgs = q] :
             q \in SeqsUpTo(Imgs, MaxElems)
                   \cup {Many([has_src |-> TRUE, src |-> Url("", "", "/y", "")])
                         \o <<[has_src |-> TRUE, src |-> Url("http", "[::1", "", "")]>>}}
    \cup {[BarePage EXCEPT !.anchors = q] : q \in SeqsUpTo(Anchors, MaxElems)}

HeaderSets ==
    {NoHeaders,
     [NoHeaders EXCEPT !["Server"] = Txt("nginx")],
     [n \in HeaderNames |-> CASE n = "Server" -> Txt("apache")
                              [] n = "Content-Length" -> Txt("42")
                              [] OTHER -> Txt("Mon, 01 Jan 2024")]}

LoadTimes == {1, 2}

\* ------------------------------------------------------------------- state
VARIABLES
    urls,              \* main: the batch, sys.argv[1:] or the list typed in
    idx,               \* main: the position of the for loop in urls
    pc,                \* where the program is
    total,             \* urllib3: Retry.total of the request being made
    attempts,          \* the status of every HTTP attempt of the current fetch (NA: no response)
    last_response,     \* the last HTTP response the current fetch received, or None
    html,              \* main: html
    status_code,       \* main: status_code
    response_headers,  \* main: response_headers
    load_time,         \* main: load_time
    fetch_ok,          \* fetch_website_content returned from its try block (line 71)
    links,             \* smart_scrape: internal_links, external_links as count_links made them
    scraped_data,      \* main: scraped_data
    report,            \* send_discord_embed: the embed of the last report posted
    events             \* what the run has done so far, in order

vars == <<urls, idx, pc, total, attempts, last_response, html, status_code,
          response_headers, load_time, fetch_ok, links, scraped_data, report, events>>

fetchVars == <<total, attempts, last_response>>
resultVars == <<html, status_code, response_headers, load_time, fetch_ok>>

\* ----------------------------------------------------------------- fetcher
\* the statuses a server of the model answers with
Statuses == {200, 204, 404, 413, 503}

\* the bodies a server of the model answers with: "", a page with nothing to
\* extract, a page with a title and a link, and a page with a link urljoin rejects
ServedPages ==
    {EmptyPage, BarePage,
     [BarePage EXCEPT !.title = [present |-> TRUE, hasString |-> TRUE, string |-> <<"a">>],
                      !.anchors = <<[has_href |-> TRUE, ws |-> FALSE,
                                     href |-> Url("http", "b.com", "/w", "")]>>],
     [BarePage EXCEPT !.anchors = <<[has_href |-> TRUE, ws |-> FALSE,
                                     href |-> Url("http", "[::1", "", "")]>>]}

ServedHeaders == {NoHeaders, [NoHeaders EXCEPT !["Server"] = Txt("nginx")]}

\* an error response carries an error page and none of the headers the record
\* reads; a Retry-After header comes with the statuses that define it
Responses ==
    {[status |-> st, retry_after |-> ra, body |-> b, headers |-> h] :
        st \in Statuses, ra \in BOOLEAN, b \in ServedPages, h \in ServedHeaders}

PlausibleResponse(r) ==
    /\ r.retry_after => r.status \in RETRY_AFTER_STATUS_CODES
    /\ r.status >= 400 => r.body = BarePage /\ r.headers = NoHeaders

\* Retry.is_retry(method, status_code, has_retry_after) for GET, which is in
\* allowed_methods
is_retry(status, has_retry_after, tot) ==
    \/ status \in status_forcelist
    \/ tot # 0 /\ has_retry_after /\ status \in RETRY_AFTER_STATUS_CODES

\* is_exhausted giving up one attempt later
is_exhausted_late(tot) == tot < -1

\* Retry.is_exhausted() after Retry.increment() took one from total
is_exhausted(tot) == tot < 0

\* Response.raise_for_status(): HTTPError for a 4xx or 5xx status
raises_for_status(status) == 400 <= status /\ status < 600

\* fetch_website_content reporting the status of the first attempt of the call
FetchSuccess_first_status(r, elapsed) ==
    [html |-> r.body, status_code |-> IF attempts # <<>> THEN attempts[1] ELSE r.status,
     response_headers |-> r.headers, load_time |-> elapsed, fetch_ok |-> TRUE]

\* the tuple fetch_website_content returns from its try block
FetchSuccess(r, elapsed) ==
    [html |-> r.body, status_code |-> r.status, response_headers |-> r.headers,
     load_time |-> elapsed, fetch_ok |-> TRUE]

\* the tuple it returns from its except block: status_code is
\* getattr(e.response, 'status_code', 'N/A'), and e.response is the response
\* only for the HTTPError of raise_for_status()
FetchFailure(e_response) ==
    [html |-> None,
     status_code |-> IF e_response = None THEN NA ELSE e_response.status,
     response_headers |-> NoHeaders, load_time |-> 0, fetch_ok |-> FALSE]

Return(result) ==
    /\ html' = result.html
    /\ status_code' = result.status_code
    /\ response_headers' = result.response_headers
    /\ load_time' = result.load_time
    /\ fetch_ok' = result.fetch_ok
    /\ pc' = "fetched"

\* One HTTP attempt of session.get() that ends in a network-level error
\* (connection refused, DNS failure, timeout).  urllib3 takes one retry from
\* total and tries again, or gives up with MaxRetryError, which requests
\* raises as ConnectionError: a RequestException without a response.
AttemptNetworkError ==
    /\ pc = "fetch"
    /\ attempts' = Append(attempts, NA)
    /\ last_response' = last_response
    /\ total' = total - 1
    /\ IF is_exhausted(total - 1)
       THEN Return(FetchFailure(None))
       ELSE /\ pc' = "fetch"
            /\ UNCHANGED resultVars
    /\ UNCHANGED <<urls, idx, links, scraped_data, report, events>>

\* One HTTP attempt that is answered.  A status urllib3 retries takes one retry
\* from total; when none is left MaxRetryError becomes requests' RetryError,
\* again without a response.  Any other response goes back to
\* fetch_website_content, where raise_for_status() decides.
AttemptResponse ==
    /\ pc = "fetch"
    /\ \E r \in Responses :
        /\ PlausibleResponse(r)
        /\ attempts' = Append(attempts, r.status)
        /\ last_response' = r
        /\ IF is_retry(r.status, r.retry_after, total)
           THEN /\ total' = total - 1
                /\ IF is_exhausted(total - 1)
                   THEN Return(FetchFailure(None))
                   ELSE /\ pc' = "fetch"
                        /\ UNCHANGED resultVars
           ELSE /\ total' = total
                /\ IF raises_for_status(r.status)
                   THEN Return(FetchFailure(r))
                   ELSE Return(FetchSuccess(r, Len(attempts) + 1))
    /\ UNCHANGED <<urls, idx, links, scraped_data, report, events>>

\* --------------------------------------------------------------- formatter
\* status_text = f"{status_code} OK" if status_code == 200 else f"Error: {status_code}"
status_text(code) == IF code = OkStatus THEN <<code, "OK">> ELSE <<"Error:", code>>

\* a colour that is red for server errors only
embed_color_server_errors(code) == IF code # NA /\ code < 500 THEN Green ELSE Red

\* color = 0x2ecc71 if status_code == 200 else 0xe74c3c
embed_color(code) == IF code = OkStatus THEN Green ELSE Red

\* the embed send_discord_embed posts; the escaping and truncation of the single
\* fields are left out, fields holds the record they are made from
send_discord_embed(domain, data, url, code) ==
    [title |-> domain, url |-> url, color |-> embed_color(code),
     status |-> status_text(code), fields |-> data]

\* ------------------------------------------------------------ orchestrator
\* if not html
Falsy(h) == h = None \/ ~h.nonempty

AfterIteration(i) == IF i + 1 > Len(urls) THEN "done" ELSE "loop"

\* banner(), the reading of the URLs, and "if not urls: return"
MainStart ==
    /\ pc = "start"
    /\ pc' = IF urls = <<>> THEN "done" ELSE "loop"
    /\ UNCHANGED <<urls, idx, fetchVars, resultVars, links, scraped_data, report, events>>

\* The head of the for loop, lines 315-324: is_valid_url(url), then either the
\* warning and "continue", or the call of fetch_website_content.  urlparse()
\* raising ValueError is caught nowhere and ends the program.
LoopHead ==
    /\ pc = "loop"
    /\ LET url == urls[idx]
       IN IF urlparse_raises(url)
          THEN /\ pc' = "crashed"
               /\ UNCHANGED <<idx, fetchVars, events>>
          ELSE IF ~is_valid_url(url)
          THEN /\ events' = Append(events, <<"skip", idx>>)
               /\ idx' = idx + 1
               /\ pc' = AfterIteration(idx)
               /\ UNCHANGED fetchVars
          ELSE /\ events' = Append(events, <<"fetch", idx>>)
               /\ pc' = "fetch"
               /\ total' = RetryTotal
               /\ attempts' = <<>>
               /\ last_response' = None
               /\ idx' = idx
    \* the values the previous iteration left in its locals are never read again
    /\ html' = None
    /\ status_code' = NA
    /\ response_headers' = NoHeaders
    /\ load_time' = 0
    /\ fetch_ok' = FALSE
    /\ links' = None
    /\ scraped_data' = None
    /\ report' = None
    /\ urls' = urls

\* Lines 326-352: the synthetic record when html is falsy, smart_scrape
\* otherwise.  A ValueError out of urljoin() ends the program.
BuildRecord ==
    /\ pc = "fetched"
    /\ LET url == urls[idx]
       IN IF Falsy(html)
          THEN /\ scraped_data' = SyntheticRecord
               /\ links' = links
               /\ pc' = "send"
          ELSE IF smart_scrape_raises(html, url)
          THEN /\ pc' = "crashed"
               /\ UNCHANGED <<links, scraped_data>>
          ELSE /\ links' = count_links(html, url)
               /\ \E il \in Orderings(count_links(html, url).internal),
                     el \in Orderings(count_links(html, url).external) :
                     scraped_data' =
                         smart_scrape(html, url, response_headers, load_time, il, el)
               /\ pc' = "send"
    /\ UNCHANGED <<urls, idx, fetchVars, resultVars, report, events>>

\* Lines 354-355: the embed is built and posted; the post succeeds or fails
\* with a RequestException, which is logged and goes no further.
Send ==
    /\ pc = "send"
    /\ report' = send_discord_embed(urls[idx].netloc, scraped_data, urls[idx], status_code)
    /\ \E posted \in BOOLEAN : events' = Append(events, <<"deliver", idx, posted>>)
    /\ idx' = idx + 1
    /\ pc' = AfterIteration(idx)
    /\ UNCHANGED <<urls, fetchVars, resultVars, links, scraped_data>>

\* the URLs of the model: a valid one, a scheme that is not http(s), an empty
\* host, and a host urlparse() rejects
BatchUrls ==
    {Url("http", "a.com", "/x", ""), Url("ftp", "a.com", "/x", ""),
     Url("http", "", "/x", ""), Url("http", "[::1", "", "")}

Init ==
    /\ urls \in SeqsUpTo(BatchUrls, MaxUrls)
    /\ idx = 1
    /\ pc = "start"
    /\ total = RetryTotal
    /\ attempts = <<>>
    /\ last_response = None
    /\ html = None
    /\ status_code = NA
    /\ response_headers = NoHeaders
    /\ load_time = 0
    /\ fetch_ok = FALSE
    /\ links = None
    /\ scraped_data = None
    /\ report = None
    /\ events = <<>>

Next ==
    \/ MainStart
    \/ LoopHead
    \/ AttemptNetworkError
    \/ AttemptResponse
    \/ BuildRecord
    \/ Send

Spec == Init /\ [][Next]_vars

\* ------------------------------------------------- the extractor on its own
\* smart_scrape called on a page of ScrapePages fetched from BaseUrl
InitScrape ==
    /\ urls = <<BaseUrl>>
    /\ idx = 1
    /\ pc = "call"
    /\ total = RetryTotal
    /\ attempts = <<>>
    /\ last_response = None
    /\ html \in ScrapePages
    /\ status_code = OkStatus
    /\ response_headers \in HeaderSets
    /\ load_time \in LoadTimes
    /\ fetch_ok = TRUE
    /\ links = None
    /\ scraped_data = None
    /\ report = None
    /\ events = <<>>

CallSmartScrape ==
    /\ pc = "call"
    /\ IF smart_scrape_raises(html, urls[idx])
       THEN /\ pc' = "raised"
            /\ UNCHANGED <<links, scraped_data>>
       ELSE /\ links' = count_links(html, urls[idx])
            /\ \E il \in Orderings(count_links(html, urls[idx]).internal),
                  el \in Orderings(count_links(html, urls[idx]).external) :
                  scraped_data' =
                      smart_scrape(html, urls[idx], response_headers, load_time, il, el)
            /\ pc' = "returned"
    /\ UNCHANGED <<urls, idx, fetchVars, resultVars, report, events>>

SpecScrape == InitScrape /\ [][CallSmartScrape]_vars

\* ================================================================== claims
\* what the claims call a valid URL: scheme http or https, and a host
ClaimValid(u) == Lower(u.scheme) \in {"http", "https"} /\ u.netloc # ""

CountEvents(kind, i) ==
    Cardinality({k \in 1..Len(events) : events[k][1] = kind /\ events[k][2] = i})

Terminated == pc \in {"done", "crashed"}

\* the fetches and deliveries of the run, in order
FetchDeliver ==
    LET IsFD(e) == e[1] \in {"fetch", "deliver"}
    IN SelectSeq(events, IsFD)

\* C1: when the run has ended, every valid URL of the batch has been fetched
\* once and has had exactly one delivery attempt, whatever happened to the
\* URLs before it.
C1_FailureIsolation ==
    Terminated =>
        \A i \in 1..Len(urls) :
            (ClaimValid(urls[i]) /\ ~urlparse_raises(urls[i])) =>
                CountEvents("fetch", i) = 1 /\ CountEvents("deliver", i) = 1

\* C2: no fetch and no delivery is ever made for a URL whose scheme is not
\* http/https or whose host is empty; fetches and deliveries alternate, fetch
\* then delivery of the same URL, and go through the batch in the given order.
C2_ValidationGate ==
    /\ \A k \in 1..Len(events) :
           events[k][1] \in {"fetch", "deliver"} => ClaimValid(urls[events[k][2]])
    /\ \A k \in 1..Len(FetchDeliver) :
           /\ FetchDeliver[k][1] = (IF k % 2 = 1 THEN "fetch" ELSE "deliver")
           /\ (k % 2 = 0) => FetchDeliver[k][2] = FetchDeliver[k - 1][2]
           /\ (k % 2 = 1 /\ k > 2) => FetchDeliver[k - 1][2] < FetchDeliver[k][2]

\* C2 witness: the run is over, the first URL was skipped as invalid and the
\* second was fetched and delivered.
C2_Witness ==
    /\ pc = "done"
    /\ Len(events) = 3
    /\ events[1] = <<"skip", 1>>
    /\ events[2] = <<"fetch", 2>>
    /\ events[3][1] = "deliver" /\ events[3][2] = 2

\* C3: a fetch that failed reports the status of the last response it
\* received, and 'N/A' only when it received none.
C3_FailureStatus ==
    (pc = "fetched" /\ ~fetch_ok) =>
        status_code = (IF last_response = None THEN NA ELSE last_response.status)

\* C4 as claimed: every attempt but the last ended in a network failure or a
\* status of the force list, and there are at most 5 attempts, the first included.
C4_Original ==
    /\ \A k \in 1..(Len(attempts) - 1) : attempts[k] \in {NA} \cup status_forcelist
    /\ Len(attempts) <= RetryTotal

\* C4 as amended: every attempt but the last ended in a network failure, a
\* status of the force list, or 413 (retried when it carries Retry-After);
\* there are at most 6 attempts, the first and 5 retries; and a call whose
\* sixth attempt fails like that ends in failure.
C4_BoundedRetry ==
    /\ \A k \in 1..(Len(attempts) - 1) :
           attempts[k] \in {NA} \cup status_forcelist \cup {413}
    /\ Len(attempts) <= RetryTotal + 1
    /\ (pc = "fetched" /\ Len(attempts) = RetryTotal + 1
            /\ attempts[Len(attempts)] \in {NA} \cup status_forcelist \cup {413})
       => ~fetch_ok

\* C4 witness: a fetch has given up after its sixth attempt.
C4_Witness ==
    pc = "fetched" /\ ~fetch_ok /\ Len(attempts) = RetryTotal + 1 /\ total < 0

IsExtractorOutput(data) ==
    \E il \in Orderings(count_links(html, urls[idx]).internal),
       el \in Orderings(count_links(html, urls[idx]).external) :
        data = smart_scrape(html, urls[idx], response_headers, load_time, il, el)

\* C5: the record handed to the formatter is the extractor's output whenever
\* the fetch succeeded, also for an empty body, and is the synthetic record
\* only when the fetch failed.
C5_RecordSelection ==
    pc = "send" =>
        /\ fetch_ok => IsExtractorOutput(scraped_data)
        /\ ~fetch_ok => scraped_data = SyntheticRecord

\* C6: the report of a URL whose fetch failed is red, never green, and its
\* fields are those of the synthetic all-sentinel record.
C6_FailureReport ==
    (report # None /\ ~fetch_ok) =>
        /\ report.color = Red
        /\ report.color # Green
        /\ report.fields = SyntheticRecord

\* C6 witness: the report of a fetch that ended with 404 has been posted.
C6_Witness ==
    /\ report # None
    /\ ~fetch_ok
    /\ status_code = 404
    /\ report.url = urls[idx - 1]

\* C7: every sequence field of a record that reaches the formatter is non-empty.
C7_NonEmptySequences ==
    pc = "send" =>
        /\ Len(scraped_data.headlines) > 0
        /\ Len(scraped_data.subheadlines) > 0
        /\ Len(scraped_data.summaries) > 0
        /\ Len(scraped_data.json_ld) > 0
        /\ DictLen(scraped_data.open_graph) > 0
        /\ Len(scraped_data.favicons) > 0
        /\ Len(scraped_data.main_images) > 0
        /\ Len(scraped_data.internal_links_sample) > 0
        /\ Len(scraped_data.external_links_sample) > 0

\* an anchor the claim counts: a non-empty href that is neither fragment-only
\* nor a javascript: pseudo-link
ClaimCounted(a) ==
    /\ a.has_href
    /\ (a.ws \/ a.href # EmptyHref)
    /\ ~(a.href.scheme = "" /\ a.href.netloc = "" /\ a.href.path = "" /\ a.href.frag # "")
    /\ Lower(a.href.scheme) # "javascript"

\* C8: the two sets are disjoint; every counted anchor puts its absolute URL
\* into exactly one of them, the internal one iff its host is the base URL's
\* host in any case; and nothing else is in either set.
C8_LinkPartition ==
    pc = "returned" =>
        LET base == urls[idx]
            counted == {html.anchors[i].href :
                           i \in {j \in 1..Len(html.anchors) : ClaimCounted(html.anchors[j])}}
        IN /\ links.internal \cap links.external = {}
           /\ \A h \in counted :
                  LET u == urljoin(base, h)
                  IN IF Lower(u.netloc) = Lower(base.netloc)
                     THEN u \in links.internal /\ u \notin links.external
                     ELSE u \in links.external /\ u \notin links.internal
           /\ \A u \in links.internal \cup links.external :
                  \E h \in counted : u = urljoin(base, h)

\* C9: a fetch that succeeded reports the body, the status and the headers of
\* the last response, never a status of the force list; and 503 followed by
\* 200 is a success with status 200.
C9_RetrySuccess ==
    /\ (pc = "fetched" /\ fetch_ok) =>
           /\ html = last_response.body
           /\ status_code = last_response.status
           /\ response_headers = last_response.headers
           /\ status_code = attempts[Len(attempts)]
           /\ status_code \notin status_forcelist
    /\ (pc = "fetched" /\ attempts = <<503, 200>>) => (fetch_ok /\ status_code = 200)

\* C9 witness: the first attempt was answered 503, the second 200 with a page
\* and a Server header, and the fetch has returned.
C9_Witness ==
    /\ pc = "fetched"
    /\ attempts = <<503, 200>>
    /\ fetch_ok
    /\ html.nonempty
    /\ response_headers # NoHeaders

\* C10: the title is the trimmed text of the title element when that is not
\* empty, and "Title not found" in every other case; it is never empty.
C10_TitleSentinel ==
    pc = "returned" =>
        LET t == html.title
            text == IF t.present /\ t.hasString THEN strip(t.string) ELSE <<>>
        IN /\ scraped_data.title = (IF text # <<>> THEN text ELSE Txt("Title not found"))
           /\ scraped_data.title # <<>>

====
